---- MODULE Spec2Model ----
(***************************************************************************)
(* TORIS AI: the tool-augmented generation loop and its conversation       *)
(* memory.                                                                 *)
(*                                                                         *)
(*   torisai/memory/manager.py      MemoryManager (JSON log + Chroma index)*)
(*   torisai/core/tool_protocol.py  ToolRegistry, extract_tool_calls       *)
(*   torisai/core/ollama_client.py  OllamaClient.generate/stream_generate  *)
(*   torisai/agents/base.py         Agent.process_query                    *)
(*   torisai/api/main.py            POST /chat, WebSocket /ws              *)
(*   agent.py, memory_manager.py    the older Agent and Memory classes     *)
(*                                                                         *)
(* The specifications share the state:                                     *)
(*   Spec         one worker runs orchestration cycles one after another   *)
(*   SpecFresh    the same on a store that has just been created           *)
(*   SpecStore    several callers use the MemoryManager at the same time   *)
(*   SpecSeq      several callers use it one after another                 *)
(*   SpecWs       WebSocket messages whose client may go away              *)
(*   SpecSession  the receive loop of one WebSocket connection             *)
(*   SpecRegistry register and execute on the ToolRegistry                 *)
(*   SpecDispatch dispatch of tools that ask for a confirmation            *)
(*   SpecStream   the generator OllamaClient.stream_generate               *)
(*   SpecHistory, SpecExtract   one call of a function on its own          *)
(***************************************************************************)
EXTENDS Integers, Sequences, FiniteSets, TLC

\* ------------------------------------------------------------------ bounds
MaxCalls == 2        \* tool-call objects in one generated text
MaxCycles == 1       \* cycles the worker runs in one behaviour

\* ------------------------------------------------------- program constants
ContextLimit == 5         \* get_conversation_history(limit=5)
LegacyContextLimit == 3   \* get_recent_history(3)

Procs == {"p1", "p2", "p3"}
Worker == "p1"

VARIABLES
    file,            \* conversation_history.json: [valid, size, log]
    index,           \* the Chroma collection "conversations": a set of entries
    collection,      \* self.conversation_collection is not None
    regexRecursion,  \* whether re.findall accepts the (?R) pattern
    tools,           \* ToolRegistry._tools: name -> ToolDefinition
    connected,       \* the worker's WebSocket is still open
    registered,      \* the definitions passed to register, in order
    warnings,        \* "already registered, overwriting" warnings logged
    execCall,        \* the ToolCall of the last registry.execute
    toolsBefore,     \* the registry when that execute was entered
    invoked,         \* the capability that execute invoked, with its arguments
    execResult,      \* what that execute returned or raised
    callLimit,       \* the limit a direct caller passed to a read or a search
    stream,          \* one stream_generate generator and what it has yielded
    requires_confirmation,  \* that field of each registered ToolDefinition
    session,         \* the receive loop of the worker's WebSocket
    arg,             \* the arguments of a function called on its own
    result,          \* what that call returned or raised
    clock,           \* time.time(), one tick per entry created
    committed,       \* the last log a completed write left in the file
    log0,            \* the log the process found when it started
    pc,              \* where each caller is
    op,              \* what each caller runs
    query,           \* the user's message
    context,         \* the history read to build the prompt
    response,        \* the generated text (response / full_response)
    history,         \* save_interaction's local list
    entry,           \* save_interaction's ConversationEntry
    saved,           \* what save_interaction / clear_history returned
    tool_calls,      \* extract_tool_calls(response)
    idx,             \* position of the tool loop
    tool_results,    \* the lines recorded by the tool loop
    answer,          \* the text handed to the caller
    status,          \* the status field handed to the caller
    events,          \* the WebSocket events sent
    generations,     \* calls of the generation backend in this cycle
    saveCalls,       \* calls of save_interaction / add_interaction in this cycle
    written,         \* completed writes of this call's entry
    executed,        \* per extracted call: "skipped", "ok" or "raised"
    faults,          \* the failures met by this caller
    observed,        \* for a read: the logs that were valid answers
    cycles           \* cycles started by the worker

storeVars == <<file, index, collection, committed, log0, clock>>
registryVars == <<registered, warnings, execCall, toolsBefore, invoked, execResult>>
applyVars == <<arg, result>>
ioVars == <<stream, requires_confirmation, session>>
\* What no step of an orchestration cycle touches.
fixedEnv == <<regexRecursion, tools, registryVars, applyVars, callLimit, ioVars>>
envVars == <<fixedEnv, connected>>
saveVars == <<history, entry, saved, saveCalls, written>>
cycleVars == <<query, context, response, tool_calls, idx, tool_results, answer,
               status, events, generations, executed, cycles>>
vars == <<storeVars, envVars, saveVars, cycleVars, pc, op, faults, observed>>

\* -------------------------------------------------------------------- text
\* A text is a sequence of tokens.  Prose is model prose, Call(n) a
\* well-formed {"name": n, "args": {...}} object (a "TOOL: n(...)" line for
\* the older Agent), Lit a literal piece of a format string and Val an
\* interpolated value.
Prose == [t |-> "prose", v |-> "text"]
Call(n) == [t |-> "call", v |-> n]
Lit(s) == [t |-> "lit", v |-> s]
Val(x) == [t |-> "val", v |-> x]

ToolNames == {"web_search", "foo_tool"}
Registered == {"web_search"}

\* The callables a definition can carry, and a ToolDefinition reduced to its
\* name and its function.
Functions == {"f0", "f1"}
ToolDefinition(n, f) == [name |-> n, function |-> f]
\* The registry after the imports of torisai.tools.
InitialTools == [n \in Registered |-> ToolDefinition(n, "f0")]

\* ------------------------------------------------------------------ store
NoEntry == [user |-> "", ai |-> <<>>, timestamp |-> 0]
ConversationEntry(u, a, ts) == [user |-> u, ai |-> a, timestamp |-> ts]

\* Bytes, in entries: a truncated file has none, "[]" has one unit.
SizeOf(h) == Len(h) + 1
Truncated == [valid |-> FALSE, size |-> 0, log |-> <<>>]
FileOf(h) == [valid |-> TRUE, size |-> SizeOf(h), log |-> h]

\* json.dump(h, f) + close through a handle opened with "w": the bytes go to
\* offset 0 of whatever the file holds by now; a longer content written by
\* another handle since the open keeps its tail.
Overlay(f, h) ==
    IF SizeOf(h) >= f.size THEN FileOf(h)
    ELSE [valid |-> FALSE, size |-> f.size, log |-> <<>>]

Range(s) == {s[i] : i \in 1..Len(s)}

LastN(h, n) == IF Len(h) <= n THEN h ELSE SubSeq(h, Len(h) - n + 1, Len(h))

\* A slice from the wrong end: history[:limit].
RecentOldestFirst(h, limit) ==
    IF limit > 0 THEN SubSeq(h, 1, IF Len(h) <= limit THEN Len(h) ELSE limit) ELSE h

\* history[-limit:] if limit > 0 else history
Recent(h, limit) == IF limit > 0 THEN LastN(h, limit) ELSE h

\* get_conversation_history: any exception (open fails, the content is not
\* JSON) is logged and answered with [].
GetConversationHistory(f, limit, fails) ==
    IF fails \/ ~f.valid THEN <<>> ELSE Recent(f.log, limit)

\* --------------------------------------------------------------- helpers
Set(f, p, v) == [f EXCEPT ![p] = v]
Fault(p, label) == [faults EXCEPT ![p] = @ \cup {label}]

\* Where a caller goes when save_interaction has returned: a direct caller
\* is done, an orchestration cycle goes on to extract the tool calls.
AfterSave(o) == IF o = "save" THEN "done" ELSE "extract"

\* The writes in flight: a handle is open and its content not yet written.
InFlight ==
    {history[q] : q \in {r \in Procs : pc[r] = "save_dump"}}
        \cup {<<>> : q \in {r \in Procs : pc[r] = "clear_dump"}}

\* -------------------------------------------- MemoryManager.save_interaction
\* Lines 115-127: build the entry, load the whole history, append in memory.
\* observed records the logs this read may return when every write is atomic.
SaveRead(p) ==
    /\ pc[p] = "save_read"
    /\ \E fails \in BOOLEAN :
        LET e == ConversationEntry(query[p], response[p], clock + 1)
        IN  /\ entry' = Set(entry, p, e)
            /\ history' = Set(history, p,
                              Append(GetConversationHistory(file, 0, fails), e))
            /\ faults' = IF fails THEN Fault(p, "read")
                         ELSE IF ~file.valid THEN Fault(p, "parse")
                         ELSE faults
    /\ observed' = Set(observed, p, {committed} \cup InFlight)
    /\ clock' = clock + 1
    /\ pc' = Set(pc, p, "save_open")
    /\ UNCHANGED <<file, index, collection, committed, log0, envVars, saved,
                   saveCalls, written, cycleVars, op>>

\* Line 130: open(self.conversation_file, "w") truncates the file, or raises
\* and save_interaction returns False (lines 152-154).
SaveOpen(p) ==
    /\ pc[p] = "save_open"
    /\ \/ /\ file' = Truncated
          /\ pc' = Set(pc, p, "save_dump")
          /\ UNCHANGED <<saved, faults>>
       \/ /\ saved' = Set(saved, p, "False")
          /\ faults' = Fault(p, "open")
          /\ pc' = Set(pc, p, AfterSave(op[p]))
          /\ UNCHANGED file
    /\ UNCHANGED <<index, collection, committed, log0, clock, envVars, history, entry,
                   saveCalls, written, cycleVars, op, observed>>

\* Line 131 and the end of the with block: the history reaches the file, or
\* the write raises and save_interaction returns False.
SaveDump(p) ==
    /\ pc[p] = "save_dump"
    /\ \/ /\ file' = Overlay(file, history[p])
          /\ committed' = IF file'.valid THEN file'.log ELSE committed
          /\ written' = Set(written, p, written[p] + 1)
          /\ pc' = Set(pc, p, "save_index")
          /\ UNCHANGED <<saved, faults>>
       \/ /\ saved' = Set(saved, p, "False")
          /\ faults' = Fault(p, "dump")
          /\ pc' = Set(pc, p, AfterSave(op[p]))
          /\ UNCHANGED <<file, committed, written>>
    /\ UNCHANGED <<index, collection, log0, clock, envVars, history, entry,
                   saveCalls, cycleVars, op, observed>>

\* A save that reports the failure of the collection as its own.
AfterIndexErrorReturnsFalse == "False"

\* Lines 148-151: the except branch of the add only logs; the function goes
\* on to return True.
AfterIndexError == "True"

\* Lines 133-151: add the entry to the collection when there is one; a
\* failure of the add is logged and swallowed; return True.
SaveIndex(p) ==
    /\ pc[p] = "save_index"
    /\ \/ /\ collection
          /\ index' = index \cup {entry[p]}
          /\ saved' = Set(saved, p, "True")
          /\ UNCHANGED faults
       \/ /\ collection
          /\ faults' = Fault(p, "index_add")
          /\ saved' = Set(saved, p, AfterIndexError)
          /\ UNCHANGED index
       \/ /\ ~collection
          /\ saved' = Set(saved, p, "True")
          /\ UNCHANGED <<index, faults>>
    /\ pc' = Set(pc, p, AfterSave(op[p]))
    /\ UNCHANGED <<file, collection, committed, log0, clock, envVars, history, entry,
                   saveCalls, written, cycleVars, op, observed>>

\* ----------------------------------------------- MemoryManager.clear_history
\* Line 239: open(..., "w"), or the exception path of lines 250-252.
ClearOpen(p) ==
    /\ pc[p] = "clear_open"
    /\ \/ /\ file' = Truncated
          /\ pc' = Set(pc, p, "clear_dump")
          /\ UNCHANGED <<saved, faults>>
       \/ /\ saved' = Set(saved, p, "False")
          /\ faults' = Fault(p, "open")
          /\ pc' = Set(pc, p, "done")
          /\ UNCHANGED file
    /\ UNCHANGED <<index, collection, committed, log0, clock, envVars, history, entry,
                   saveCalls, written, cycleVars, op, observed>>

\* Line 240: json.dump([], f) and close.
ClearDump(p) ==
    /\ pc[p] = "clear_dump"
    /\ \/ /\ file' = Overlay(file, <<>>)
          /\ committed' = IF file'.valid THEN file'.log ELSE committed
          /\ pc' = Set(pc, p, "clear_index")
          /\ UNCHANGED <<saved, faults>>
       \/ /\ saved' = Set(saved, p, "False")
          /\ faults' = Fault(p, "dump")
          /\ pc' = Set(pc, p, "done")
          /\ UNCHANGED <<file, committed>>
    /\ UNCHANGED <<index, collection, log0, clock, envVars, history, entry,
                   saveCalls, written, cycleVars, op, observed>>

\* Lines 242-249: delete everything from the collection when there is one; a
\* failure of the delete is logged and swallowed; return True.
ClearIndex(p) ==
    /\ pc[p] = "clear_index"
    /\ \/ /\ collection
          /\ index' = {}
          /\ UNCHANGED faults
       \/ /\ collection
          /\ faults' = Fault(p, "index_delete")
          /\ UNCHANGED index
       \/ /\ ~collection
          /\ UNCHANGED <<index, faults>>
    /\ saved' = Set(saved, p, "True")
    /\ pc' = Set(pc, p, "done")
    /\ UNCHANGED <<file, collection, committed, log0, clock, envVars, history, entry,
                   saveCalls, written, cycleVars, op, observed>>

\* ------------------------------------------------ direct callers of the store
Queries == {"q1"}
Limits == {0, 1, 2}

\* A caller enters save_interaction(user_message, ai_response).
StartSave(p, q) ==
    /\ pc[p] = "idle"
    /\ op' = Set(op, p, "save")
    /\ query' = Set(query, p, q)
    /\ response' = Set(response, p, <<Prose>>)
    /\ saveCalls' = Set(saveCalls, p, 1)
    /\ pc' = Set(pc, p, "save_read")
    /\ UNCHANGED <<storeVars, envVars, history, entry, saved, written, context,
                   tool_calls, idx, tool_results, answer, status, events,
                   generations, executed, cycles, faults, observed>>

\* A caller enters clear_history().
StartClear(p) ==
    /\ pc[p] = "idle"
    /\ op' = Set(op, p, "clear")
    /\ pc' = Set(pc, p, "clear_open")
    /\ UNCHANGED <<storeVars, envVars, saveVars, cycleVars, faults, observed>>

\* A caller runs get_conversation_history(limit) (the read is one read of
\* the file).  observed records the answers a reader may get when every
\* write is atomic: the log before the writes in flight, or after one.
ReadHistory(p, l) ==
    /\ pc[p] = "idle"
    /\ op' = Set(op, p, "read")
    /\ callLimit' = Set(callLimit, p, l)
    /\ \E fails \in BOOLEAN :
        /\ context' = Set(context, p, GetConversationHistory(file, l, fails))
        /\ faults' = IF fails THEN Fault(p, "read") ELSE faults
    /\ observed' = Set(observed, p,
                       {Recent(h, l) : h \in {committed} \cup InFlight})
    /\ pc' = Set(pc, p, "done")
    /\ UNCHANGED <<storeVars, ioVars, regexRecursion, tools, registryVars, applyVars,
                   connected, saveVars, query, response, tool_calls, idx,
                   tool_results, answer, status, events, generations, executed,
                   cycles>>

\* The answers collection.query(n_results=l) can give: l entries of the
\* collection, or all of them when it holds fewer, in the order of relevance.
Orderings(S) ==
    {f \in [1..Cardinality(S) -> S] : \A i, j \in 1..Cardinality(S) : f[i] = f[j] => i = j}
QueryResults(l) ==
    {LastN(f, l) : f \in Orderings(index)}

SearchLimits == {1, 2}

\* MemoryManager.search_memory (lines 200-228): without a collection the
\* recent history; otherwise the metadatas of the query, and [] when the
\* query raises.
SearchMemory(p, l) ==
    /\ pc[p] = "idle"
    /\ op' = Set(op, p, "search")
    /\ callLimit' = Set(callLimit, p, l)
    /\ \/ /\ ~collection
          /\ \E fails \in BOOLEAN :
                /\ context' = Set(context, p, GetConversationHistory(file, l, fails))
                /\ faults' = IF fails THEN Fault(p, "read") ELSE faults
       \/ /\ collection
          /\ \E r \in QueryResults(l) : context' = Set(context, p, r)
          /\ UNCHANGED faults
       \/ /\ collection
          /\ context' = Set(context, p, <<>>)
          /\ faults' = Fault(p, "index_query")
    /\ pc' = Set(pc, p, "done")
    /\ UNCHANGED <<storeVars, ioVars, regexRecursion, tools, registryVars, applyVars,
                   connected, saveVars, query, response, tool_calls, idx,
                   tool_results, answer, status, events, generations, executed,
                   cycles, observed>>

\* Sequential use: the callers come one after another, each when the call
\* of the one before has returned.
Previous == [p \in Procs \ {"p1"} |-> IF p = "p2" THEN "p1" ELSE "p2"]
Turn(p) == IF p = "p1" THEN TRUE ELSE pc[Previous[p]] = "done"
SeqQueries == {"q1", "q2"}

\* ------------------------------------------------------------ generated text
CallSeqs == UNION {[1..n -> ToolNames] : n \in 0..MaxCalls}
DraftOf(cs) == <<Prose>> \o [i \in 1..Len(cs) |-> Call(cs[i])]
Outcomes == {"ok", "status", "transport"}

\* OllamaClient.generate: the model's text on a 200, and otherwise the
\* failure turned into a string that is returned like a text.
GenerateResult(outcome, d) ==
    CASE outcome = "ok" -> d
      [] outcome = "status" -> <<Lit("Error: "), Lit("Ollama API error: "), Val("500")>>
      [] outcome = "transport" -> <<Lit("Error: "), Lit("Error generating text: "), Val("exc")>>

\* OllamaClient.stream_generate: the fragments it yields.  A non-200 status
\* gives one diagnostic fragment; a transport error after k fragments gives
\* those k and then a diagnostic fragment.
StreamFragments(outcome, d, k) ==
    CASE outcome = "ok" -> [i \in 1..Len(d) |-> <<d[i]>>]
      [] outcome = "status" -> << <<Lit("Error: "), Lit("Ollama API error: "), Val("500")>> >>
      [] outcome = "transport" ->
            [i \in 1..k |-> <<d[i]>>]
                \o << <<Lit("Error: "), Lit("Error streaming text: "), Val("exc")>> >>

\* ----------------------------------------- OllamaClient.stream_generate
MaxChunks == 4       \* chunks of one response body

\* f"Error: {error_msg}" of lines 165-167 and of lines 179-182.
StatusDiagnostic == <<Lit("Error: "), Lit("Ollama API error: "), Val("500")>>
StreamDiagnostic == <<Lit("Error: "), Lit("Error streaming text: "), Val("exc")>>
Diagnostics == {StatusDiagnostic, StreamDiagnostic}

\* What aiter_text can hand over: a JSON object with a "response" field, a
\* JSON object without one, text that is not JSON, and JSON that is no
\* object (a number, a string).
ChunkKinds == {"response", "other", "raw", "scalar"}

\* The generator before its first step.
NoStream == [state |-> "idle", status |-> "none", consumed |-> 0,
             yielded |-> <<>>, cause |-> "none", escaped |-> FALSE]

\* A handler that catches the failures of the transport only.
CaughtTransportOnly(exc) == exc = "transport"

\* Line 179: except Exception.
Caught(exc) == exc \in {"transport", "type_error"}

\* A status branch without its return: the generator goes on to the body.
AfterStatusErrorReads == "reading"

\* Lines 164-168: after the diagnostic of a non-200 status, return.
AfterStatusError == "ended"

\* Lines 179-182: an exception inside the try yields one diagnostic
\* fragment and the generator ends; one that the handler does not catch
\* leaves the generator.
StreamRaise(exc) ==
    stream' = [stream EXCEPT !.state = "ended",
                             !.cause = exc,
                             !.yielded = IF Caught(exc) THEN Append(@, StreamDiagnostic) ELSE @,
                             !.escaped = ~Caught(exc)]

\* Lines 163-168: open the request; the connection fails, or the status is
\* not 200, or the body can be read.
StreamOpen ==
    /\ stream.state = "idle"
    /\ \/ StreamRaise("transport")
       \/ stream' = [stream EXCEPT !.state = AfterStatusError, !.status = "500",
                                    !.cause = "status",
                                    !.yielded = Append(@, StatusDiagnostic)]
       \/ stream' = [stream EXCEPT !.state = "reading", !.status = "200"]
    /\ UNCHANGED <<storeVars, regexRecursion, tools, registryVars, applyVars,
                   callLimit, requires_confirmation, session, connected, saveVars,
                   cycleVars, pc, op, faults, observed>>

\* Lines 170-178: one chunk of the body.  data["response"] is yielded, an
\* object without the field yields nothing, a chunk that is not JSON is
\* yielded as it is; on JSON that is no object the test "response" in data
\* or the subscript raises TypeError, which only the outer handler catches.
StreamChunk ==
    /\ stream.state = "reading"
    /\ stream.consumed < MaxChunks
    /\ \E c \in ChunkKinds :
        CASE c = "response" ->
                stream' = [stream EXCEPT !.consumed = @ + 1,
                                         !.yielded = Append(@, <<Prose>>)]
          [] c = "other" ->
                stream' = [stream EXCEPT !.consumed = @ + 1]
          [] c = "raw" ->
                stream' = [stream EXCEPT !.consumed = @ + 1,
                                         !.yielded = Append(@, <<Val("chunk")>>)]
          [] c = "scalar" -> StreamRaise("type_error")
    /\ UNCHANGED <<storeVars, regexRecursion, tools, registryVars, applyVars,
                   callLimit, requires_confirmation, session, connected, saveVars,
                   cycleVars, pc, op, faults, observed>>

\* The connection breaks while the body is read: aiter_text raises.
StreamTransportError ==
    /\ stream.state = "reading"
    /\ StreamRaise("transport")
    /\ UNCHANGED <<storeVars, regexRecursion, tools, registryVars, applyVars,
                   callLimit, requires_confirmation, session, connected, saveVars,
                   cycleVars, pc, op, faults, observed>>

\* The body is exhausted: the async for ends and so does the generator.
StreamEnd ==
    /\ stream.state = "reading"
    /\ stream' = [stream EXCEPT !.state = "ended"]
    /\ UNCHANGED <<storeVars, regexRecursion, tools, registryVars, applyVars,
                   callLimit, requires_confirmation, session, connected, saveVars,
                   cycleVars, pc, op, faults, observed>>

RECURSIVE Concat(_)
Concat(ss) == IF ss = <<>> THEN <<>> ELSE Head(ss) \o Concat(Tail(ss))

\* "\n".join(lines)
RECURSIVE JoinLines(_)
JoinLines(ls) ==
    IF ls = <<>> THEN <<>>
    ELSE IF Len(ls) = 1 THEN ls[1]
    ELSE ls[1] \o <<Lit("\n")>> \o JoinLines(Tail(ls))

\* ---------------------------------------------------------- tool protocol
ToolCall(n) == [name |-> n, args |-> <<>>]

IsCall(tok) == tok.t = "call"

\* What else a text can hold around its tool-call objects: a brace on its
\* own, and a balanced {...} group that is not JSON.
Open == [t |-> "brace", v |-> "{"]
Close == [t |-> "brace", v |-> "}"]
Malformed == [t |-> "group", v |-> "{oops}"]

\* A JSON object of another shape, as one piece of the text:
\*   no_name      {"args": {}}
\*   name_number  {"name": 5, "args": {}}
\*   args_absent  {"name": "web_search"}
\*   args_text    {"name": "web_search", "args": "x"}
\*   args_given   {"name": "web_search", "args": {"query": "x"}}
Shapes == {"no_name", "name_number", "args_absent", "args_text", "args_given"}
Obj(shape) == [t |-> "object", v |-> shape]
IsObject(tok) == tok.t = "object"

\* {} and {"query": "x"}
EmptyArgs == <<>>
GivenArgs == <<Val("query")>>

\* Lines 80-94 for one candidate that json.loads accepts: a mapping without
\* "name" is passed over; ToolCall(name=data.get("name"),
\* args=data.get("args", {})) validates name as str and args as Dict, and
\* its ValidationError is a ValueError, caught by line 92: the candidate is
\* skipped.
ParseCandidate(shape) ==
    CASE shape = "no_name" -> <<>>
      [] shape = "name_number" -> <<>>
      [] shape = "args_absent" -> <<[name |-> "web_search", args |-> EmptyArgs]>>
      [] shape = "args_text" -> <<>>
      [] shape = "args_given" -> <<[name |-> "web_search", args |-> GivenArgs]>>

\* The pattern \{(?:[^{}]|(?R))*\} tried at the "{" at position i, inside
\* which depth braces are open at position k: the position of the "}" that
\* closes it, or 0 when the text ends first.
RECURSIVE MatchEnd(_, _, _)
MatchEnd(text, k, depth) ==
    IF k > Len(text) THEN 0
    ELSE IF text[k] = Open THEN MatchEnd(text, k + 1, depth + 1)
    ELSE IF text[k] = Close
         THEN IF depth = 1 THEN k ELSE MatchEnd(text, k + 1, depth - 1)
    ELSE MatchEnd(text, k + 1, depth)

\* Lines 76-94 from position i on: findall gives the leftmost balanced
\* groups without overlap; a group is kept when json.loads accepts it and
\* the mapping has a "name".  A group that a pair of braces makes around
\* other text is one candidate as a whole, and it carries no name of its own.
RECURSIVE ScanFrom(_, _)
ScanFrom(text, i) ==
    IF i > Len(text) THEN <<>>
    ELSE IF IsCall(text[i]) THEN <<ToolCall(text[i].v)>> \o ScanFrom(text, i + 1)
    ELSE IF IsObject(text[i]) THEN ParseCandidate(text[i].v) \o ScanFrom(text, i + 1)
    ELSE IF text[i] = Open /\ MatchEnd(text, i + 1, 1) > 0
         THEN ScanFrom(text, MatchEnd(text, i + 1, 1) + 1)
    ELSE ScanFrom(text, i + 1)

\* extract_tool_calls with an engine that accepts the pattern: the balanced
\* candidates that parse to a mapping with a name, left to right.
ExtractToolCalls(text) == ScanFrom(text, 1)

\* f"Tool {call.name} result: {result}"
ToolResultLine(n, r) == <<Lit("Tool "), Val(n), Lit(" result: "), Val(r)>>
\* f"Error executing tool {call.name}: {str(e)}"
ToolErrorLine(n, msg) == <<Lit("Error executing tool "), Val(n), Lit(": "), Val(msg)>>
\* f"Error: {error_msg}" with error_msg = f"Error processing query: {str(e)}"
ProcessingError == <<Lit("Error: "), Lit("Error processing query: "), Val("exc")>>

Variants == {"base", "chat", "ws"}

\* response += "\n\n" + "\n".join(tool_results), only when there are results
WithResults(resp, results) ==
    IF results = <<>> THEN resp ELSE resp \o <<Lit("\n\n")>> \o JoinLines(results)

\* --------------------------------------------------- the orchestration cycle
\* Agent.process_query (stream=False), POST /chat and one WebSocket message
\* up to the generation call: read the recent history for the prompt (an
\* unreadable file reads as an empty history); the WebSocket endpoint sends
\* "start".
StartCycle(p, v, q) ==
    /\ pc[p] = "idle"
    /\ cycles < MaxCycles
    /\ cycles' = cycles + 1
    /\ op' = Set(op, p, v)
    /\ query' = Set(query, p, q)
    /\ context' = Set(context, p,
                      GetConversationHistory(file, ContextLimit, FALSE))
    /\ faults' = IF ~file.valid THEN Fault(p, "parse") ELSE faults
    /\ events' = Set(events, p, IF v = "ws" THEN <<"start">> ELSE <<>>)
    /\ pc' = Set(pc, p, "generate")
    /\ UNCHANGED <<storeVars, envVars, saveVars, response, tool_calls, idx,
                   tool_results, answer, status, generations, executed, observed>>

\* A cycle of /chat that goes on without saving.
AfterGenerateChatSkipsSave(v) == IF v = "chat" THEN "extract" ELSE "save_read"

\* Where a cycle goes with the generated text: into save_interaction.
AfterGenerate(v) == "save_read"

\* base.py 88-97, main.py 156-163: await ollama_client.generate(...), then
\* call save_interaction(query, response).
Generate(p) ==
    /\ pc[p] = "generate"
    /\ op[p] \in {"base", "chat"}
    /\ \E outcome \in Outcomes, cs \in CallSeqs :
        /\ outcome # "ok" => cs = <<>>
        /\ response' = Set(response, p, GenerateResult(outcome, DraftOf(cs)))
        /\ faults' = IF outcome = "ok" THEN faults ELSE Fault(p, "generate")
    /\ generations' = Set(generations, p, generations[p] + 1)
    /\ saveCalls' = Set(saveCalls, p,
                        saveCalls[p] + IF AfterGenerate(op[p]) = "save_read" THEN 1 ELSE 0)
    /\ pc' = Set(pc, p, AfterGenerate(op[p]))
    /\ UNCHANGED <<storeVars, envVars, history, entry, saved, written, query,
                   context, tool_calls, idx, tool_results, answer, status,
                   events, executed, cycles, op, observed>>

\* main.py 239-252: consume stream_generate, send each fragment as a chunk,
\* assemble full_response, then call save_interaction(message, full_response).
StreamGenerate(p) ==
    /\ pc[p] = "generate"
    /\ op[p] = "ws"
    /\ connected
    /\ \E outcome \in Outcomes, cs \in CallSeqs :
        \E k \in 0..Len(DraftOf(cs)) :
            LET frags == StreamFragments(outcome, DraftOf(cs), k)
            IN  /\ outcome # "transport" => k = 0
                /\ outcome = "status" => cs = <<>>
                /\ response' = Set(response, p, Concat(frags))
                /\ events' = Set(events, p,
                                 events[p] \o [i \in 1..Len(frags) |-> "chunk"])
                /\ faults' = IF outcome = "ok" THEN faults ELSE Fault(p, "generate")
    /\ generations' = Set(generations, p, generations[p] + 1)
    /\ saveCalls' = Set(saveCalls, p,
                        saveCalls[p] + IF AfterGenerate(op[p]) = "save_read" THEN 1 ELSE 0)
    /\ pc' = Set(pc, p, AfterGenerate(op[p]))
    /\ UNCHANGED <<storeVars, envVars, history, entry, saved, written, query,
                   context, tool_calls, idx, tool_results, answer, status,
                   executed, cycles, op, observed>>

\* base.py 100-101, main.py 166-167 and 255-256: extract_tool_calls(response).
\* re.findall raises re.error on the (?R) pattern with the standard engine;
\* the exception reaches the handler of each caller: process_query returns an
\* error text (120-123), /chat raises HTTP 500 (187-192), the WebSocket loop
\* sends an "error" event (292-297).
Extract(p) ==
    /\ pc[p] = "extract"
    /\ IF regexRecursion
       THEN /\ tool_calls' = Set(tool_calls, p, ExtractToolCalls(response[p]))
            /\ idx' = Set(idx, p, 1)
            /\ pc' = Set(pc, p, IF tool_calls'[p] = <<>> THEN "return" ELSE "tools")
            /\ UNCHANGED <<answer, events, faults>>
       ELSE /\ faults' = Fault(p, "regex")
            /\ answer' = Set(answer, p, IF op[p] = "base" THEN ProcessingError ELSE <<>>)
            /\ events' = Set(events, p,
                             IF op[p] = "ws" /\ connected
                             THEN Append(events[p], "error") ELSE events[p])
            /\ pc' = Set(pc, p, CASE op[p] = "base" -> "done"
                                  [] op[p] = "chat" -> "http500"
                                  [] op[p] = "ws" ->
                                        IF connected THEN "ws_error" ELSE "ws_closed")
            /\ UNCHANGED <<tool_calls, idx>>
    /\ UNCHANGED <<storeVars, envVars, saveVars, query, context, response,
                   tool_results, status, generations, executed, cycles, op,
                   observed>>

\* A lookup that leaves out the tools that ask for a confirmation.
FoundUnconfirmed(n) == n \in DOMAIN tools /\ ~requires_confirmation[n]

\* registry.get(name) gives a definition: self._tools.get(name) is not None.
Found(n) == n \in DOMAIN tools

\* A loop body that swallows the exception of a tool.
RecordedLineSwallowsError(n, outcome) ==
    IF outcome = "ok" THEN <<ToolResultLine(n, "result")>> ELSE <<>>

\* What the loop body records for one call: nothing when registry.get finds
\* no tool, a result line when the capability returns, an error line when
\* registry.execute raises.
RecordedLine(n, outcome) ==
    CASE outcome = "skipped" -> <<>>
      [] outcome = "ok" -> <<ToolResultLine(n, "result")>>
      [] outcome = "raised" -> <<ToolErrorLine(n, "boom")>>

\* The events the WebSocket loop sends for one call.
CallEvents(outcome) ==
    CASE outcome = "skipped" -> <<"tool_call">>
      [] outcome = "ok" -> <<"tool_call", "tool_result">>
      [] outcome = "raised" -> <<"tool_call", "tool_error">>

\* One iteration of the tool loop (base.py 104-113, main.py 170-177 and
\* 258-279).
ExecuteTool(p) ==
    /\ pc[p] = "tools"
    /\ op[p] = "ws" => connected
    /\ LET n == tool_calls[p][idx[p]].name
       IN  \E outcome \in {"skipped", "ok", "raised"} :
            /\ (outcome = "skipped") <=> ~Found(n)
            /\ executed' = Set(executed, p, Append(executed[p], outcome))
            /\ IF op[p] = "ws"
               THEN /\ events' = Set(events, p, events[p] \o CallEvents(outcome))
                    /\ UNCHANGED tool_results
               ELSE /\ tool_results' = Set(tool_results, p,
                                           tool_results[p] \o RecordedLine(n, outcome))
                    /\ UNCHANGED events
    /\ idx' = Set(idx, p, idx[p] + 1)
    /\ pc' = Set(pc, p, IF idx[p] = Len(tool_calls[p]) THEN "return" ELSE "tools")
    /\ UNCHANGED <<storeVars, envVars, saveVars, query, context, response,
                   tool_calls, answer, status, generations, cycles, op, faults,
                   observed>>

\* base.py 115-118, main.py 179-186 and 282-285: hand the answer to the
\* caller; the WebSocket endpoint sends "end".
Return(p) ==
    /\ pc[p] = "return"
    /\ op[p] = "ws" => connected
    /\ answer' = Set(answer, p,
                     IF op[p] = "ws" THEN response[p]
                     ELSE WithResults(response[p], tool_results[p]))
    /\ status' = Set(status, p, IF op[p] = "chat" THEN "success" ELSE "none")
    /\ events' = Set(events, p,
                     IF op[p] = "ws" THEN Append(events[p], "end") ELSE events[p])
    /\ pc' = Set(pc, p, "done")
    /\ UNCHANGED <<storeVars, envVars, saveVars, query, context, response,
                   tool_calls, idx, tool_results, generations, executed, cycles,
                   op, faults, observed>>

\* ------------------------------------------- the older Agent (agent.py)
\* f"Error: {response.status_code} - {response.text}"
LegacyStatusError == <<Lit("Error: "), Val("500"), Lit(" - "), Val("body")>>
\* f"Error processing query: {str(e)}"
LegacyProcessingError == <<Lit("Error processing query: "), Val("exc")>>
\* The text of the second generation call.
FinalProse == [t |-> "prose", v |-> "final"]
\* f"Web Search Result for '{query}':\n{result}" and its siblings
LegacyResultLine(n, r) == <<Lit("Result for "), Val(n), Lit(":\n"), Val(r)>>
\* f"Error executing tool call: {str(e)}"
LegacyErrorLine(msg) == <<Lit("Error executing tool call: "), Val(msg)>>

\* The "TOOL:" lines of the text, in order (agent.py 112-118).
LegacyToolCalls(text) == ExtractToolCalls(text)

\* Memory.get_recent_history formats the entries (any exception gives "").
LegacyRecentHistory(f, limit, fails) ==
    IF fails \/ ~f.valid THEN <<>> ELSE LastN(f.log, limit)

\* agent.py 72-90: read the recent history and build the prompt.
LegacyStart(p, q) ==
    /\ pc[p] = "idle"
    /\ cycles < MaxCycles
    /\ cycles' = cycles + 1
    /\ op' = Set(op, p, "legacy")
    /\ query' = Set(query, p, q)
    /\ context' = Set(context, p,
                      LegacyRecentHistory(file, LegacyContextLimit, FALSE))
    /\ faults' = IF ~file.valid THEN Fault(p, "parse") ELSE faults
    /\ pc' = Set(pc, p, "l_generate")
    /\ UNCHANGED <<storeVars, envVars, saveVars, response, tool_calls, idx,
                   tool_results, answer, status, events, generations, executed,
                   observed>>

\* agent.py 93-118 and 186-191: the first requests.post.  A non-200 status
\* returns an error text at once, an exception returns one from the outer
\* handler; a text without "TOOL:" goes to add_interaction, a text with it
\* to the tool loop.
LegacyGenerate(p) ==
    /\ pc[p] = "l_generate"
    /\ generations' = Set(generations, p, generations[p] + 1)
    /\ \E outcome \in Outcomes, cs \in CallSeqs :
        /\ outcome # "ok" => cs = <<>>
        /\ CASE outcome = "ok" ->
                  /\ response' = Set(response, p, DraftOf(cs))
                  /\ tool_calls' = Set(tool_calls, p, LegacyToolCalls(DraftOf(cs)))
                  /\ idx' = Set(idx, p, 1)
                  /\ pc' = Set(pc, p, IF cs = <<>> THEN "l_add" ELSE "l_tools")
                  /\ saveCalls' = Set(saveCalls, p,
                                      saveCalls[p] + IF cs = <<>> THEN 1 ELSE 0)
                  /\ UNCHANGED <<answer, faults>>
             [] outcome = "status" ->
                  /\ answer' = Set(answer, p, LegacyStatusError)
                  /\ faults' = Fault(p, "generate")
                  /\ pc' = Set(pc, p, "done")
                  /\ UNCHANGED <<response, tool_calls, idx, saveCalls>>
             [] outcome = "transport" ->
                  /\ answer' = Set(answer, p, LegacyProcessingError)
                  /\ faults' = Fault(p, "generate")
                  /\ pc' = Set(pc, p, "done")
                  /\ UNCHANGED <<response, tool_calls, idx, saveCalls>>
    /\ UNCHANGED <<storeVars, envVars, history, entry, saved, written, query,
                   context, tool_results, status, events, executed, cycles, op,
                   observed>>

\* agent.py 122-157: one iteration of the tool loop.  A call that names none
\* of the four tools matches no branch and records nothing; an exception of
\* the parsing or of the tool records an error line.
LegacyExecuteTool(p) ==
    /\ pc[p] = "l_tools"
    /\ LET n == tool_calls[p][idx[p]].name
       IN  \E outcome \in {"skipped", "ok", "raised"} :
            /\ (outcome = "skipped") <=> (n \notin DOMAIN tools)
            /\ executed' = Set(executed, p, Append(executed[p], outcome))
            /\ tool_results' = Set(tool_results, p,
                    tool_results[p] \o
                        CASE outcome = "skipped" -> <<>>
                          [] outcome = "ok" -> <<LegacyResultLine(n, "result")>>
                          [] outcome = "raised" -> <<LegacyErrorLine("boom")>>)
    /\ idx' = Set(idx, p, idx[p] + 1)
    /\ pc' = Set(pc, p, IF idx[p] = Len(tool_calls[p]) THEN "l_final" ELSE "l_tools")
    /\ UNCHANGED <<storeVars, envVars, saveVars, query, context, response,
                   tool_calls, answer, status, events, generations, cycles, op,
                   faults, observed>>

\* agent.py 159-182: the second requests.post with the tool results folded
\* into the prompt; its text (or its status error) replaces the draft and
\* goes to add_interaction; an exception returns from the outer handler.
LegacyFinalize(p) ==
    /\ pc[p] = "l_final"
    /\ generations' = Set(generations, p, generations[p] + 1)
    /\ \E outcome \in Outcomes :
        CASE outcome = "ok" ->
                /\ response' = Set(response, p, <<FinalProse>>)
                /\ saveCalls' = Set(saveCalls, p, saveCalls[p] + 1)
                /\ pc' = Set(pc, p, "l_add")
                /\ UNCHANGED <<answer, faults>>
          [] outcome = "status" ->
                /\ response' = Set(response, p, LegacyStatusError)
                /\ saveCalls' = Set(saveCalls, p, saveCalls[p] + 1)
                /\ faults' = Fault(p, "generate")
                /\ pc' = Set(pc, p, "l_add")
                /\ UNCHANGED answer
          [] outcome = "transport" ->
                /\ answer' = Set(answer, p, LegacyProcessingError)
                /\ faults' = Fault(p, "generate")
                /\ pc' = Set(pc, p, "done")
                /\ UNCHANGED <<response, saveCalls>>
    /\ UNCHANGED <<storeVars, envVars, history, entry, saved, written, query,
                   context, tool_calls, idx, tool_results, status, events,
                   executed, cycles, op, observed>>

\* Memory.add_interaction (memory_manager.py 40-61) and the return of
\* process_query (agent.py 182-188).  A failed read returns False before
\* anything is written; a failed open leaves the file; a failed dump leaves
\* it truncated.  The Agent ignores the result and returns the text.
LegacyAddInteraction(p) ==
    /\ pc[p] = "l_add"
    /\ LET e == ConversationEntry(query[p], response[p], clock + 1)
       IN  /\ entry' = Set(entry, p, e)
           /\ \E fault \in {"none", "read", "open", "dump"} :
                /\ (~file.valid) => fault = "read"
                /\ faults' = IF fault = "none" THEN faults ELSE Fault(p, fault)
                /\ saved' = Set(saved, p, IF fault = "none" THEN "True" ELSE "False")
                /\ history' = Set(history, p,
                                  IF fault = "read" THEN <<>> ELSE Append(file.log, e))
                /\ file' = CASE fault = "none" -> FileOf(Append(file.log, e))
                             [] fault = "dump" -> Truncated
                             [] OTHER -> file
                /\ committed' = IF fault = "none" THEN file'.log ELSE committed
                /\ written' = Set(written, p, written[p] + IF fault = "none" THEN 1 ELSE 0)
    /\ clock' = clock + 1
    /\ answer' = Set(answer, p, response[p])
    /\ pc' = Set(pc, p, "done")
    /\ UNCHANGED <<index, collection, log0, envVars, saveCalls, query, context,
                   response, tool_calls, idx, tool_results, status, events,
                   generations, executed, cycles, op, observed>>

\* ------------------------------------------------------------ ToolRegistry
MaxRegs == 3         \* register calls in one behaviour

ArgSets == {"a0", "a1"}
NoCall == [name |-> "", args |-> ""]
NoInvocation == [function |-> "", args |-> "", outcome |-> "none"]
NoResult == [kind |-> "none", value |-> <<>>]

\* A registry that keeps the definition it already has for a name.
KeepFirst(reg, d) ==
    [x \in DOMAIN reg \cup {d.name} |-> IF x \in DOMAIN reg THEN reg[x] ELSE d]

\* Line 36: self._tools[tool_def.name] = tool_def
Upsert(reg, d) ==
    [x \in DOMAIN reg \cup {d.name} |-> IF x = d.name THEN d ELSE reg[x]]

\* ToolRegistry.register (lines 32-37): warn when the name is taken, store the
\* definition under its name.  The results of earlier executes are history.
Register(n, f) ==
    /\ Len(registered) <= MaxRegs
    /\ warnings' = warnings + IF n \in DOMAIN tools THEN 1 ELSE 0
    /\ tools' = Upsert(tools, ToolDefinition(n, f))
    /\ registered' = Append(registered, ToolDefinition(n, f))
    /\ execCall' = NoCall
    /\ invoked' = NoInvocation
    /\ execResult' = NoResult
    /\ toolsBefore' = tools'
    /\ requires_confirmation' =
            [x \in DOMAIN tools' |-> IF x = n THEN FALSE ELSE requires_confirmation[x]]
    /\ UNCHANGED <<storeVars, stream, session, regexRecursion, connected, applyVars, callLimit,
                   saveVars, cycleVars, pc, op, faults, observed>>

\* An execute that hands the failure of the capability back as its result.
ExecuteResultAsText(f, a, outcome) ==
    [kind |-> "returned",
     value |-> IF outcome = "raised" THEN <<Lit("Error: "), Val("boom")>>
               ELSE <<Val(f), Val(a)>>]

\* Lines 60-66: result = tool.function(**call.args); return result, or log
\* and re-raise what the function raised.
ExecuteResult(f, a, outcome) ==
    IF outcome = "raised" THEN [kind |-> "raised", value |-> <<Val("boom")>>]
    ELSE [kind |-> "returned", value |-> <<Val(f), Val(a)>>]

\* Line 58: raise ValueError(f"Unknown tool: {call.name}")
UnknownToolError(n) == [kind |-> "raised", value |-> <<Lit("Unknown tool: "), Val(n)>>]

\* ToolRegistry.execute (lines 54-66).
Execute(c, outcome) ==
    /\ execCall' = c
    /\ toolsBefore' = tools
    /\ IF ~Found(c.name)
       THEN /\ invoked' = NoInvocation
            /\ execResult' = UnknownToolError(c.name)
       ELSE /\ invoked' = [function |-> tools[c.name].function, args |-> c.args,
                            outcome |-> outcome]
            /\ execResult' = ExecuteResult(tools[c.name].function, c.args, outcome)
    /\ UNCHANGED <<storeVars, ioVars, regexRecursion, tools, connected, registered,
                   warnings, applyVars, callLimit, saveVars, cycleVars, pc, op,
                   faults, observed>>

\* ------------------------------------------------ the WebSocket's other end
\* The states of a WebSocket message in which the next thing the handler
\* does with the socket is a send_json: a chunk (line 246), a tool_call
\* (line 260) or "end" (line 282).
Sending == {"generate", "tools", "return"}

\* The client closes the connection while a message is being handled.  The
\* handler does not notice before it next uses the socket.
Disconnect(p) ==
    /\ op[p] = "ws"
    /\ pc[p] \in Sending \cup {"save_read", "save_open", "save_dump", "save_index", "extract"}
    /\ connected
    /\ connected' = FALSE
    /\ UNCHANGED <<storeVars, fixedEnv, saveVars, cycleVars, pc, op,
                   faults, observed>>

\* main.py 246, 260-279, 282 with the socket closed: send_json raises, the
\* handlers at 274 and 292 try to send an event and raise again, and the
\* exception leaves the receive loop through lines 299-302.
SendFails(p) ==
    /\ op[p] = "ws"
    /\ pc[p] \in Sending
    /\ ~connected
    /\ pc' = Set(pc, p, "ws_closed")
    /\ UNCHANGED <<storeVars, envVars, saveVars, cycleVars, op, faults, observed>>

Ended == {"done", "http500", "ws_error", "ws_closed"}

\* The locals of a call that is over.
ResetLocals(p) ==
    /\ pc' = Set(pc, p, "idle")
    /\ op' = Set(op, p, "none")
    /\ query' = Set(query, p, "")
    /\ context' = Set(context, p, <<>>)
    /\ response' = Set(response, p, <<>>)
    /\ history' = Set(history, p, <<>>)
    /\ entry' = Set(entry, p, NoEntry)
    /\ saved' = Set(saved, p, "none")
    /\ tool_calls' = Set(tool_calls, p, <<>>)
    /\ idx' = Set(idx, p, 0)
    /\ tool_results' = Set(tool_results, p, <<>>)
    /\ answer' = Set(answer, p, <<>>)
    /\ status' = Set(status, p, "none")
    /\ events' = Set(events, p, <<>>)
    /\ generations' = Set(generations, p, 0)
    /\ saveCalls' = Set(saveCalls, p, 0)
    /\ written' = Set(written, p, 0)
    /\ executed' = Set(executed, p, <<>>)
    /\ faults' = Set(faults, p, {})
    /\ observed' = Set(observed, p, {})

\* The caller has its answer (or its failure) and the locals of the call
\* are gone; the worker is free again.
Finish(p) ==
    /\ pc[p] \in Ended
    /\ ResetLocals(p)
    /\ connected' = TRUE
    /\ UNCHANGED <<storeVars, fixedEnv, cycles>>

\* --------------------------------------------- the WebSocket receive loop
\* The loop of lines 211-297 after accept(): running, nothing received yet.
NoSession == [open |-> TRUE, last |-> "none"]

\* What receive_text can hand over: a JSON object, JSON that is no object,
\* and text that is not JSON.
Frames == {"object", "scalar", "invalid"}

\* Lines 213-236: receive a text and parse it.  Text that is not JSON gets
\* the "Invalid JSON" error event (287-291); JSON that is no object fails at
\* request.get and gets an error event from the handler of 292-297; for an
\* object the handler reads the recent history and sends "start".
Receive(p, frame, q) ==
    /\ session.open
    /\ connected
    /\ IF frame = "object"
       THEN StartCycle(p, "ws", q)
       ELSE /\ pc[p] = "idle"
            /\ op' = Set(op, p, "ws")
            /\ faults' = Fault(p, "request")
            /\ events' = Set(events, p, <<"error">>)
            /\ pc' = Set(pc, p, "ws_error")
            /\ UNCHANGED <<storeVars, envVars, saveVars, query, context, response,
                           tool_calls, idx, tool_results, answer, status,
                           generations, executed, cycles, observed>>

\* A loop that gives up after a message that failed.
LoopContinuesAfterEndOnly(state) == state = "done"

\* Lines 282-297 are the end of the body of while True: after "end" and
\* after an error event the loop goes back to receive_text.
LoopContinues(state) == state \in {"done", "ws_error"}

\* The handling of one message is over and the loop comes round.
LoopBack(p) ==
    /\ op[p] = "ws"
    /\ pc[p] \in {"done", "ws_error"}
    /\ session.open
    /\ session' = [session EXCEPT !.open = LoopContinues(pc[p]), !.last = pc[p]]
    /\ ResetLocals(p)
    /\ UNCHANGED <<storeVars, regexRecursion, tools, registryVars, applyVars,
                   callLimit, stream, requires_confirmation, connected, cycles>>

\* Lines 299-302: the client goes away while the loop waits (receive_text
\* raises WebSocketDisconnect), or a send on the closed socket has raised
\* out of the handlers; the loop is left.
LoopEnds(p) ==
    /\ session.open
    /\ \/ pc[p] = "idle"
       \/ op[p] = "ws" /\ pc[p] = "ws_closed"
    /\ session' = [session EXCEPT !.open = FALSE, !.last = pc[p]]
    /\ connected' = FALSE
    /\ ResetLocals(p)
    /\ UNCHANGED <<storeVars, regexRecursion, tools, registryVars, applyVars,
                   callLimit, stream, requires_confirmation, cycles>>

\* ------------------------------------------------------------------- Init
OldEntry == ConversationEntry("q0", <<Prose>>, 0)

\* MemoryManager.__init__: the log file is created with [] when it does not
\* exist, and otherwise kept with what an earlier run left in it; so is the
\* persisted collection.
InitStoreState ==
    /\ log0 \in {<<>>, <<OldEntry>>}
    /\ file = FileOf(log0)
    /\ committed = log0
    /\ index \in SUBSET Range(log0)
    /\ collection \in BOOLEAN
    /\ clock = 0

\* requires_confirmation=False of the tools of torisai/tools/web.py.
DefaultFlags == [n \in Registered |-> FALSE]

InitLocals ==
    /\ pc = [p \in Procs |-> "idle"]
    /\ op = [p \in Procs |-> "none"]
    /\ query = [p \in Procs |-> ""]
    /\ context = [p \in Procs |-> <<>>]
    /\ response = [p \in Procs |-> <<>>]
    /\ history = [p \in Procs |-> <<>>]
    /\ entry = [p \in Procs |-> NoEntry]
    /\ saved = [p \in Procs |-> "none"]
    /\ tool_calls = [p \in Procs |-> <<>>]
    /\ idx = [p \in Procs |-> 0]
    /\ tool_results = [p \in Procs |-> <<>>]
    /\ answer = [p \in Procs |-> <<>>]
    /\ status = [p \in Procs |-> "none"]
    /\ events = [p \in Procs |-> <<>>]
    /\ generations = [p \in Procs |-> 0]
    /\ saveCalls = [p \in Procs |-> 0]
    /\ written = [p \in Procs |-> 0]
    /\ executed = [p \in Procs |-> <<>>]
    /\ faults = [p \in Procs |-> {}]
    /\ observed = [p \in Procs |-> {}]
    /\ cycles = 0
    /\ connected = TRUE
    /\ registered = <<ToolDefinition("web_search", "f0")>>
    /\ warnings = 0
    /\ execCall = NoCall
    /\ toolsBefore = InitialTools
    /\ invoked = NoInvocation
    /\ execResult = NoResult
    /\ callLimit = [p \in Procs |-> 0]
    /\ stream = NoStream
    /\ session = NoSession

\* No function is being called on its own.
NoArg == [fn |-> "none"]
NotApplied == [done |-> FALSE, raised |-> FALSE, value |-> <<>>]
Returned(v) == [done |-> TRUE, raised |-> FALSE, value |-> v]
InitApply == arg = NoArg /\ result = NotApplied

InitStore ==
    /\ InitStoreState
    /\ InitLocals
    /\ requires_confirmation = DefaultFlags
    /\ InitApply
    /\ regexRecursion = FALSE
    /\ tools = InitialTools

NextStore ==
    \E p \in Procs :
        \/ \E q \in Queries : StartSave(p, q)
        \/ StartClear(p)
        \/ \E limit \in Limits : ReadHistory(p, limit)
        \/ SaveRead(p)
        \/ SaveOpen(p)
        \/ SaveDump(p)
        \/ SaveIndex(p)
        \/ ClearOpen(p)
        \/ ClearDump(p)
        \/ ClearIndex(p)

SpecStore == InitStore /\ [][NextStore]_vars

Init ==
    /\ InitStoreState
    /\ InitLocals
    /\ requires_confirmation = DefaultFlags
    /\ InitApply
    /\ regexRecursion \in BOOLEAN
    /\ tools = InitialTools

Next ==
    \/ \E v \in Variants, q \in Queries : StartCycle(Worker, v, q)
    \/ Generate(Worker)
    \/ StreamGenerate(Worker)
    \/ SaveRead(Worker)
    \/ SaveOpen(Worker)
    \/ SaveDump(Worker)
    \/ SaveIndex(Worker)
    \/ Extract(Worker)
    \/ ExecuteTool(Worker)
    \/ Return(Worker)
    \/ \E q \in Queries : LegacyStart(Worker, q)
    \/ LegacyGenerate(Worker)
    \/ LegacyExecuteTool(Worker)
    \/ LegacyFinalize(Worker)
    \/ LegacyAddInteraction(Worker)
    \/ Finish(Worker)

Spec == Init /\ [][Next]_vars

\* The same cycles on a store that MemoryManager.__init__ has just created
\* (lines 58-61: the log file is written with []).
InitFresh == Init /\ log0 = <<>>
SpecFresh == InitFresh /\ [][Next]_vars

\* ------------------------------------- get_conversation_history on its own
MaxLog == 11         \* entries of the log file
DefaultLimit == 10   \* def get_conversation_history(self, limit: int = 10)
Unspecified == MaxLog + 2

\* A log of n entries written one after another.
LogOfLen(n) == [i \in 1..n |-> ConversationEntry("q0", <<Prose>>, i)]

\* The limit the function works with: the default when none is passed.
LimitOf(l) == IF l = Unspecified THEN DefaultLimit ELSE l

HistoryInputs ==
    [fn : {"get_conversation_history"},
     log : {LogOfLen(n) : n \in 0..MaxLog},
     limit : 0..(MaxLog + 2),
     fails : BOOLEAN]

\* One call of get_conversation_history (lines 156-176) on a log file.
ApplyHistory ==
    /\ ~result.done
    /\ result' = Returned(GetConversationHistory(FileOf(arg.log), LimitOf(arg.limit),
                                                  arg.fails))
    /\ UNCHANGED <<storeVars, ioVars, regexRecursion, tools, connected, registryVars, arg,
                   callLimit, saveVars, cycleVars, pc, op, faults, observed>>

InitHistory ==
    /\ InitStoreState
    /\ log0 = <<>>
    /\ collection
    /\ InitLocals
    /\ requires_confirmation = DefaultFlags
    /\ regexRecursion = FALSE
    /\ tools = InitialTools
    /\ arg \in HistoryInputs
    /\ result = NotApplied

SpecHistory == InitHistory /\ [][ApplyHistory]_vars

\* The calls of a caller whose turn it is.
SeqSave(p) == Turn(p) /\ \E q \in SeqQueries : StartSave(p, q)
SeqClear(p) == Turn(p) /\ StartClear(p)
SeqRead(p) == Turn(p) /\ \E l \in Limits : ReadHistory(p, l)
SeqSearch(p) == Turn(p) /\ \E l \in SearchLimits : SearchMemory(p, l)

\* The store used by one caller at a time.
NextSeq ==
    \E p \in Procs :
        \/ SeqSave(p)
        \/ SeqClear(p)
        \/ SeqRead(p)
        \/ SeqSearch(p)
        \/ SaveRead(p)
        \/ SaveOpen(p)
        \/ SaveDump(p)
        \/ SaveIndex(p)
        \/ ClearOpen(p)
        \/ ClearDump(p)
        \/ ClearIndex(p)

SpecSeq == InitStore /\ [][NextSeq]_vars

\* ------------------------------------------- extract_tool_calls on its own
MaxTokens == 4       \* pieces of one text

Alphabet ==
    {Prose, Open, Close, Malformed} \cup {Call(n) : n \in ToolNames}
        \cup {Obj(s) : s \in Shapes}
Texts == UNION {[1..n -> Alphabet] : n \in 0..MaxTokens}
ExtractInputs == [fn : {"extract_tool_calls"}, text : Texts]

\* re.error of line 76, raised outside the try of the loop.
Raised(e) == [done |-> TRUE, raised |-> TRUE, value |-> <<e>>]

\* One call of extract_tool_calls (lines 68-96) on a text.
ApplyExtract ==
    /\ ~result.done
    /\ result' = IF regexRecursion THEN Returned(ExtractToolCalls(arg.text))
                  ELSE Raised("re.error")
    /\ UNCHANGED <<storeVars, ioVars, regexRecursion, tools, connected, registryVars, arg,
                   callLimit, saveVars, cycleVars, pc, op, faults, observed>>

InitExtract ==
    /\ InitStoreState
    /\ log0 = <<>>
    /\ collection
    /\ InitLocals
    /\ requires_confirmation = DefaultFlags
    /\ regexRecursion \in BOOLEAN
    /\ tools = InitialTools
    /\ arg \in ExtractInputs
    /\ result = NotApplied

SpecExtract == InitExtract /\ [][ApplyExtract]_vars

\* ------------------------------------------- stream_generate on its own
InitStream ==
    /\ InitStoreState
    /\ log0 = <<>>
    /\ index = {}
    /\ collection
    /\ InitLocals
    /\ requires_confirmation = DefaultFlags
    /\ InitApply
    /\ regexRecursion = FALSE
    /\ tools = InitialTools

NextStream ==
    \/ StreamOpen
    \/ StreamChunk
    \/ StreamTransportError
    \/ StreamEnd

\* The consumer keeps iterating and the transport delivers, ends or fails.
SpecStream == InitStream /\ [][NextStream]_vars /\ WF_vars(NextStream)

\* ------------------------------------------------ dispatch and the flag
\* A registry whose tool asks for a confirmation or does not (write_file
\* and delete_file do, filesystem.py 240 and 255), a store that starts
\* empty and has no collection.
InitDispatch ==
    /\ InitStoreState
    /\ log0 = <<>>
    /\ ~collection
    /\ InitLocals
    /\ requires_confirmation \in [Registered -> BOOLEAN]
    /\ InitApply
    /\ regexRecursion \in BOOLEAN
    /\ tools = InitialTools

\* registry.execute called on its own, before any cycle.
DirectExecute ==
    /\ cycles = 0
    /\ execResult = NoResult
    /\ \E n \in ToolNames, a \in ArgSets, outcome \in {"returned", "raised"} :
            Execute([name |-> n, args |-> a], outcome)

\* A process_query or /chat cycle of a process that made no such call.
DispatchCycle ==
    /\ execResult = NoResult
    /\ \E v \in {"base", "chat"}, q \in Queries : StartCycle(Worker, v, q)

NextDispatch ==
    \/ DirectExecute
    \/ DispatchCycle
    \/ Generate(Worker)
    \/ SaveRead(Worker)
    \/ SaveOpen(Worker)
    \/ SaveDump(Worker)
    \/ SaveIndex(Worker)
    \/ Extract(Worker)
    \/ ExecuteTool(Worker)
    \/ Return(Worker)
    \/ Finish(Worker)

SpecDispatch == InitDispatch /\ [][NextDispatch]_vars

\* ------------------------------------------------- one WebSocket session
InitSession ==
    /\ InitStoreState
    /\ log0 = <<>>
    /\ ~collection
    /\ InitLocals
    /\ requires_confirmation = DefaultFlags
    /\ InitApply
    /\ regexRecursion \in BOOLEAN
    /\ tools = InitialTools

NextSession ==
    \/ \E frame \in Frames, q \in Queries : Receive(Worker, frame, q)
    \/ StreamGenerate(Worker)
    \/ SaveRead(Worker)
    \/ SaveOpen(Worker)
    \/ SaveDump(Worker)
    \/ SaveIndex(Worker)
    \/ Extract(Worker)
    \/ ExecuteTool(Worker)
    \/ Return(Worker)
    \/ Disconnect(Worker)
    \/ SendFails(Worker)
    \/ LoopBack(Worker)
    \/ LoopEnds(Worker)

SpecSession == InitSession /\ [][NextSession]_vars

\* The registry used directly: register and execute in any order.
NextRegistry ==
    \/ \E n \in ToolNames, f \in Functions : Register(n, f)
    \/ \E n \in ToolNames, a \in ArgSets, outcome \in {"returned", "raised"} :
            Execute([name |-> n, args |-> a], outcome)

SpecRegistry == Init /\ [][NextRegistry]_vars

\* WebSocket messages whose client may go away at any time.
NextWs ==
    \/ \E q \in Queries : StartCycle(Worker, "ws", q)
    \/ StreamGenerate(Worker)
    \/ SaveRead(Worker)
    \/ SaveOpen(Worker)
    \/ SaveDump(Worker)
    \/ SaveIndex(Worker)
    \/ Extract(Worker)
    \/ ExecuteTool(Worker)
    \/ Return(Worker)
    \/ Disconnect(Worker)
    \/ SendFails(Worker)
    \/ Finish(Worker)

SpecWs == Init /\ [][NextWs]_vars

\* ===================================================================== claims
Cycles == Variants \cup {"legacy"}
Completed(p) == pc[p] = "done" /\ op[p] \in Variants
StoreFaults == {"read", "parse", "open", "dump"}
InjectedFaults == {"read", "open", "dump", "index_add", "index_delete"}

\* What a reader of the store gets: an unreadable file reads as no entries.
StoreLog == IF file.valid THEN file.log ELSE <<>>

\* The entries of the log that are this call's entry.
AppendedFor(p) ==
    Cardinality({i \in 1..Len(StoreLog) : StoreLog[i] = entry[p]})

\* ------------------------------------------------------------------------ C1
\* C1 as stated: every completed cycle (process_query, POST /chat, a
\* WebSocket message that reached "end") has appended exactly one
\* ConversationEntry to the store, whatever its tool calls did.  Stated for
\* the cycles whose generation and extraction went well.
C1_ExactlyOneEntryPerCycle ==
    \A p \in Procs :
        (Completed(p) /\ faults[p] \cap {"generate", "regex"} = {})
        => AppendedFor(p) = 1

\* C1 amended: every completed cycle has called save_interaction exactly
\* once, whatever its tool calls did; the log holds exactly one entry of the
\* cycle when that call returned True and none when it returned False.
C1_OneSavePerCycle ==
    \A p \in Procs :
        Completed(p) =>
            /\ saveCalls[p] = 1
            /\ saved[p] \in {"True", "False"}
            /\ AppendedFor(p) = IF saved[p] = "True" THEN 1 ELSE 0

\* A completed cycle whose two tool calls ran, one of them raising, and
\* whose entry is in the log once.
C1_Witness ==
    \E p \in Procs :
        /\ Completed(p)
        /\ executed[p] = <<"raised", "ok">>
        /\ saved[p] = "True"
        /\ AppendedFor(p) = 1

\* ------------------------------------------------------------------------ C2
\* C2: when at least one extracted tool call was executed, the ai text of
\* the entry stored for the cycle is the final answer handed to the caller.
C2_StoredIsFinalAnswer ==
    \A p \in Procs :
        ( /\ pc[p] = "done"
          /\ op[p] \in Cycles
          /\ saved[p] = "True"
          /\ \E i \in 1..Len(executed[p]) : executed[p][i] # "skipped" )
        => entry[p].ai = answer[p]

\* ------------------------------------------------------------------------ C3
Savers == {p \in Procs : op[p] = "save"}

\* C3: when two save_interaction calls have run against the same store with
\* no I/O failure and no clear, both have returned True and the log is valid
\* and holds both new entries and every entry it held before.
C3_ConcurrentSavesKeepBoth ==
    ( /\ Cardinality(Savers) = 2
      /\ \A r \in Procs : /\ op[r] \in {"none", "save"}
                          /\ pc[r] \in {"idle", "done"}
                          /\ faults[r] \cap InjectedFaults = {} )
    => /\ file.valid
       /\ \A p \in Savers : saved[p] = "True" /\ entry[p] \in Range(file.log)
       /\ Range(log0) \subseteq Range(file.log)

\* ------------------------------------------------------------------------ C4
\* C4: a get_conversation_history whose own read did not fail returns the
\* complete log as it was before the writes in flight, or as it is after one
\* of them.
C4_ReadsSeeWholeLog ==
    \A p \in Procs :
        (op[p] = "read" /\ pc[p] = "done" /\ "read" \notin faults[p])
        => context[p] \in observed[p]

\* ------------------------------------------------------------------------ C5
\* C5: a save_interaction of a cycle that returned True left the log as it
\* was before the call plus the new entry; and a completed cycle that met a
\* store failure hands its caller a status that tells it.
C5_NoSilentDataLoss ==
    \A p \in Procs :
        /\ (op[p] \in Variants /\ pc[p] = "extract" /\ saved[p] = "True")
           => \E before \in observed[p] : StoreLog = Append(before, entry[p])
        /\ (Completed(p) /\ faults[p] # {} /\ faults[p] \subseteq StoreFaults)
           => status[p] \notin {"none", "success"}

\* ------------------------------------------------------------------------ C6
Quiescent == \A r \in Procs : pc[r] \in {"idle", "done"}

\* C6: whenever no store call is running, the log file is readable and the
\* collection is open, every entry of the Semantic Index is an entry of the
\* Conversation Store.
C6_IndexWithinStore ==
    (Quiescent /\ file.valid /\ collection) => index \subseteq Range(file.log)

\* ------------------------------------------------------------------------ C7
\* C7 (its safety half): no cycle ends in an exception or an aborted
\* request; a cycle that has ended has handed its caller an answer.  Stated
\* for the cycles that met no backend and no store failure.
C7_NoCycleAborts ==
    \A p \in Procs :
        (op[p] \in Cycles /\ faults[p] \cap (StoreFaults \cup {"generate"}) = {})
        => /\ pc[p] \notin {"http500", "ws_error"}
           /\ pc[p] = "done" => answer[p] # <<>>

\* ------------------------------------------------------------------------ C8
\* A text that reports a failure.
IsDiagnostic(text) ==
    /\ text # <<>>
    /\ \E i \in 1..Len(text) : text[i].t = "lit" /\ text[i].v = "Error: "

\* C8: a cycle whose generation call failed, and that met no store failure,
\* ends with that diagnostic text stored in the log.
C8_GenerationFailureIsStored ==
    \A p \in Procs :
        ( /\ pc[p] = "done"
          /\ op[p] \in Cycles
          /\ "generate" \in faults[p]
          /\ faults[p] \cap StoreFaults = {} )
        => /\ IsDiagnostic(entry[p].ai)
           /\ entry[p] \in Range(StoreLog)

\* ------------------------------------------------------------------------ C9
\* "Error: unknown tool <name>"
UnknownToolLine(n) == <<Lit("Error: unknown tool "), Val(n)>>

\* C9: a completed process_query or /chat cycle whose draft called a tool
\* that is not registered has recorded the unknown-tool line for it.  Stated
\* for the cycles that met no failure.
C9_UnknownToolRecorded ==
    \A p \in Procs :
        (Completed(p) /\ op[p] \in {"base", "chat"} /\ faults[p] = {})
        => \A i \in 1..Len(executed[p]) :
              executed[p][i] = "skipped"
              => UnknownToolLine(tool_calls[p][i].name) \in Range(tool_results[p])

\* ----------------------------------------------------------------------- C10
InToolLoop(p) ==
    /\ op[p] \in {"base", "chat"}
    /\ regexRecursion
    /\ pc[p] \in {"tools", "return", "done"}

\* The calls among the first i that recorded a line.
NotSkipped(p, i) == {j \in 1..i : executed[p][j] # "skipped"}

\* C10 as stated: a raising tool leaves the line
\* "Tool <name> result: Error executing tool <name>: <message>".  Stated for
\* the cycles that met no other failure.
C10_ResultPrefixedErrorLine ==
    \A p \in Procs :
        (InToolLoop(p) /\ faults[p] = {}) =>
            \A i \in 1..Len(executed[p]) :
                executed[p][i] = "raised" =>
                    <<Lit("Tool "), Val(tool_calls[p][i].name), Lit(" result: "),
                      Lit("Error executing tool "), Val(tool_calls[p][i].name),
                      Lit(": "), Val("boom")>> \in Range(tool_results[p])

\* C10 amended: a raising tool leaves exactly one line, of the form
\* "Error executing tool <name>: <message>", at the place of its call among
\* the recorded lines, and the calls after it are still executed.
C10_ErrorLineAndContinue ==
    \A p \in Procs :
        InToolLoop(p) =>
            /\ Len(tool_results[p]) = Cardinality(NotSkipped(p, Len(executed[p])))
            /\ \A i \in 1..Len(executed[p]) :
                  executed[p][i] = "raised" =>
                      tool_results[p][Cardinality(NotSkipped(p, i))]
                          = <<Lit("Error executing tool "),
                              Val(tool_calls[p][i].name), Lit(": "), Val("boom")>>
            /\ pc[p] \in {"return", "done"} => Len(executed[p]) = Len(tool_calls[p])

\* A completed cycle whose first call raised and whose second call ran.
C10_Witness ==
    \E p \in Procs :
        /\ InToolLoop(p)
        /\ pc[p] = "done"
        /\ executed[p] = <<"raised", "ok">>
        /\ Len(tool_results[p]) = 2

\* ----------------------------------------------------------------------- C11
\* C11: a WebSocket message whose client disconnected after generation had
\* started and before "end" was sent has appended no entry for its query.
\* Stated for the messages that met no other failure.
C11_DisconnectPersistsNothing ==
    \A p \in Procs :
        (op[p] = "ws" /\ pc[p] = "ws_closed" /\ faults[p] = {})
        => AppendedFor(p) = 0

\* ----------------------------------------------------------------------- C12
\* The definition most recently registered under a name.
LatestIndex(n) ==
    CHOOSE i \in 1..Len(registered) :
        /\ registered[i].name = n
        /\ \A j \in (i + 1)..Len(registered) : registered[j].name # n
RegisteredNames == {registered[i].name : i \in 1..Len(registered)}

\* C12: after any sequence of register calls the registry holds exactly the
\* registered names, each with the definition registered last under it, and
\* an execute that finds its name invokes that definition's function.
C12_RegisterIsUpsert ==
    /\ DOMAIN tools = RegisteredNames
    /\ \A n \in DOMAIN tools : tools[n] = registered[LatestIndex(n)]
    /\ invoked.outcome # "none"
       => invoked.function = registered[LatestIndex(execCall.name)].function

\* A name was registered again with another function and then executed.
C12_Witness ==
    /\ \E i, j \in 1..Len(registered) :
          /\ i < j
          /\ registered[i].name = registered[j].name
          /\ registered[i].function # registered[j].function
          /\ execCall.name = registered[j].name
    /\ invoked.outcome # "none"
    /\ warnings > 0

\* ----------------------------------------------------------------------- C13
\* C13: an execute of an absent name raises the unknown-tool error, invokes
\* nothing and leaves the registry as it was; an execute of a present name
\* invokes that definition's function with call.args, returns what it
\* returns and raises when it raises.
C13_ExecuteContract ==
    execResult.kind # "none" =>
        /\ tools = toolsBefore
        /\ IF execCall.name \notin DOMAIN toolsBefore
           THEN /\ execResult = UnknownToolError(execCall.name)
                /\ invoked = NoInvocation
           ELSE /\ invoked.function = toolsBefore[execCall.name].function
                /\ invoked.args = execCall.args
                /\ (invoked.outcome = "raised") <=> (execResult.kind = "raised")
                /\ execResult # UnknownToolError(execCall.name)

\* A registered capability raised inside execute.
C13_Witness ==
    /\ execResult.kind = "raised"
    /\ invoked.outcome = "raised"
    /\ execCall.name \in DOMAIN toolsBefore

\* ----------------------------------------------------------------------- C14
\* The reference operator: the last min(limit, length) entries, oldest
\* first, for a positive limit; the whole log for limit 0 or no limit.
Min(a, b) == IF a < b THEN a ELSE b
RecentReference(log, l) ==
    IF l = Unspecified \/ l = 0 THEN log
    ELSE SubSeq(log, Len(log) - Min(l, Len(log)) + 1, Len(log))

\* C14: on a readable log, get_conversation_history returns what the
\* reference operator returns, for every log and every limit, passed or not.
C14_HistoryMatchesReference ==
    (result.done /\ arg.fn = "get_conversation_history" /\ ~arg.fails)
    => result.value = RecentReference(arg.log, arg.limit)

\* ----------------------------------------------------------------------- C15
\* The caller that comes right after p.
Following(p, r) == r \in DOMAIN Previous /\ Previous[r] = p

\* C15: in sequential use, a get_conversation_history(1) that comes right
\* after a save_interaction(u, a) that returned True, and reads the file
\* without an I/O error, returns exactly the entry with user u and ai a; a
\* get_conversation_history(n) right after a clear_history that returned
\* True returns no entry.
C15_ReadAfterSaveAndClear ==
    \A p, r \in Procs :
        (/\ Following(p, r)
         /\ saved[p] = "True"
         /\ op[r] = "read" /\ pc[r] = "done" /\ "read" \notin faults[r])
        => /\ (op[p] = "save" /\ callLimit[r] = 1)
              => /\ Len(context[r]) = 1
                 /\ context[r][1] = entry[p]
                 /\ context[r][1].user = query[p]
                 /\ context[r][1].ai = response[p]
           /\ op[p] = "clear" => context[r] = <<>>

\* A read of one entry right after a save onto a log that held an entry,
\* and a read right after a clear of a log that held an entry.
C15_Witness ==
    /\ op["p1"] = "save" /\ saved["p1"] = "True"
    /\ op["p2"] = "read" /\ pc["p2"] = "done" /\ callLimit["p2"] = 1
    /\ "read" \notin faults["p2"]
    /\ Len(file.log) = 2
    /\ context["p2"] = <<entry["p1"]>>

\* The call of p has returned and no later caller has started.
JustReturned(p) ==
    pc[p] = "done" /\ \A r \in Procs : Following(p, r) => pc[r] = "idle"

\* ----------------------------------------------------------------------- C16
IsPrefix(a, b) == Len(a) <= Len(b) /\ SubSeq(b, 1, Len(a)) = a

\* C16: in sequential use, after a save_interaction that returned True the
\* log it found is a prefix of the log it left and its entry is last,
\* whatever happened to its read of the file.
C16_AppendOnly ==
    \A p \in Procs :
        (op[p] = "save" /\ JustReturned(p) /\ saved[p] = "True")
        => \A before \in observed[p] :
              /\ IsPrefix(before, StoreLog)
              /\ StoreLog = Append(before, entry[p])

\* ----------------------------------------------------------------------- C17
\* C17: a save_interaction whose add to the collection raised has returned
\* True and has left its entry as the last entry of a readable log.
C17_IndexFailureInvisible ==
    \A p \in Procs :
        (op[p] = "save" /\ JustReturned(p) /\ "index_add" \in faults[p])
        => /\ saved[p] = "True"
           /\ file.valid
           /\ file.log # <<>>
           /\ file.log[Len(file.log)] = entry[p]

\* The add of a save raised and the entry is not in the collection.
C17_Witness ==
    \E p \in Procs :
        /\ op[p] = "save" /\ JustReturned(p) /\ "index_add" \in faults[p]
        /\ saved[p] = "True"
        /\ entry[p] \in Range(file.log)
        /\ entry[p] \notin index

\* ----------------------------------------------------------------------- C18
\* C18: a search_memory that could not use the index, because there is no
\* collection or because the query raised, returns what
\* get_conversation_history(limit) returns.
C18_SearchFallsBack ==
    \A p \in Procs :
        (/\ op[p] = "search" /\ pc[p] = "done" /\ "read" \notin faults[p]
         /\ ~collection \/ "index_query" \in faults[p])
        => context[p] = Recent(StoreLog, callLimit[p])

\* ----------------------------------------------------------------------- C19
\* The well-formed tool-call objects of a text, left to right.
CallsOf(text) ==
    LET cands == SelectSeq(text, IsCall)
    IN  [i \in 1..Len(cands) |-> ToolCall(cands[i].v)]

\* C19: extract_tool_calls returns, and what it returns holds a ToolCall for
\* every well-formed tool-call object of the text, whatever surrounds it.
C19_FindsEveryCall ==
    (result.done /\ arg.fn = "extract_tool_calls" /\ CallsOf(arg.text) # <<>>)
    => /\ ~result.raised
       /\ Range(CallsOf(arg.text)) \subseteq Range(result.value)

\* ----------------------------------------------------------------------- C20
\* A text whose tool-call objects stand among prose only.
PlainText(text) == \A i \in 1..Len(text) : text[i] \in {Prose} \cup {Call(n) : n \in ToolNames}

\* C20: for a text with k tool-call objects among prose, extract_tool_calls
\* returns k calls, the i-th being the i-th object, duplicates included.
C20_OrderAndDuplicates ==
    (/\ result.done /\ arg.fn = "extract_tool_calls"
     /\ PlainText(arg.text) /\ CallsOf(arg.text) # <<>>)
    => /\ ~result.raised
       /\ result.value = CallsOf(arg.text)

\* ----------------------------------------------------------------------- C21
\* The pieces that are a JSON object with a string name.
ShapedAsCall(tok) ==
    IsCall(tok) \/ (IsObject(tok) /\ tok.v \in {"args_absent", "args_text", "args_given"})

\* C21: on a text that holds no JSON object shaped as a tool call (prose,
\* braces on their own, groups that are not JSON, objects without a name or
\* with a name that is no string) extract_tool_calls returns the empty
\* sequence and does not raise.
C21_NothingToExtract ==
    (/\ result.done /\ arg.fn = "extract_tool_calls"
     /\ \A i \in 1..Len(arg.text) : ~ShapedAsCall(arg.text[i]))
    => /\ ~result.raised
       /\ result.value = <<>>

\* ----------------------------------------------------------------------- C22
\* What the rule of the specification makes of one candidate: a ToolCall
\* exactly for a mapping with a string name, with the given args when they
\* are a mapping and the empty mapping otherwise.
QualifiedCall(tok) ==
    IF ~ShapedAsCall(tok) THEN <<>>
    ELSE IF IsCall(tok) THEN <<ToolCall(tok.v)>>
    ELSE <<[name |-> "web_search",
            args |-> IF tok.v = "args_given" THEN GivenArgs ELSE EmptyArgs]>>

\* C22: on a text that is one JSON object, extract_tool_calls returns the
\* ToolCall the rule gives for it, or nothing when the rule gives none.
\* Stated for an engine that finds the candidate.
C22_QualifyingCandidate ==
    (/\ result.done /\ arg.fn = "extract_tool_calls" /\ regexRecursion
     /\ Len(arg.text) = 1
     /\ IsCall(arg.text[1]) \/ IsObject(arg.text[1]))
    => /\ ~result.raised
       /\ result.value = QualifiedCall(arg.text[1])

\* ----------------------------------------------------------------------- C23
IsDiagnosticFragment(f) == f \in Diagnostics
DiagnosticsIn(fs) == {i \in 1..Len(fs) : IsDiagnosticFragment(fs[i])}

\* What stream_generate has yielded is well formed: a diagnostic fragment is
\* the last one, a non-200 status has yielded its diagnostic and nothing
\* else, a failure in mid-stream has ended the sequence with a diagnostic,
\* and no exception has left the generator.
StreamWellFormed ==
    /\ \A i \in DiagnosticsIn(stream.yielded) : i = Len(stream.yielded)
    /\ stream.cause = "status" => stream.yielded = <<StatusDiagnostic>>
    /\ stream.cause \in {"transport", "type_error"}
        => /\ stream.state = "ended"
           /\ stream.yielded # <<>>
           /\ stream.yielded[Len(stream.yielded)] = StreamDiagnostic
    /\ stream.state = "ended" /\ stream.cause = "none"
        => DiagnosticsIn(stream.yielded) = {}
    /\ ~stream.escaped
    /\ stream.state = "ended" => ~ENABLED NextStream

\* C23: stream_generate yields a finite sequence and ends; the sequence is
\* well formed at every moment: one diagnostic and nothing else on a non-200
\* status, a diagnostic as the last fragment on a failure in mid-stream, no
\* model fragment after a diagnostic, no exception to the consumer.
C23_StreamEndsWellFormed ==
    []StreamWellFormed /\ <>(stream.state = "ended")

\* The transport failed after two model fragments had been yielded.
C23_Witness ==
    /\ stream.state = "ended"
    /\ stream.cause = "transport"
    /\ Len(stream.yielded) = 3
    /\ DiagnosticsIn(stream.yielded) = {3}

\* ----------------------------------------------------------------------- C24
\* The line the tool loop owes to the i-th call: its result line or its
\* error line.
OwedLines(n) == {ToolResultLine(n, "result"), ToolErrorLine(n, "boom")}

\* C24: when the tool loop of process_query or /chat is over, every
\* extracted call has been attempted once, in the order of extraction, and
\* the recorded tool results hold exactly one line per call, in that order.
\* Stated for the cycles that met no failure.
C24_OneLinePerCallInOrder ==
    \A p \in Procs :
        (InToolLoop(p) /\ pc[p] \in {"return", "done"} /\ faults[p] = {})
        => /\ Len(executed[p]) = Len(tool_calls[p])
           /\ Len(tool_results[p]) = Len(tool_calls[p])
           /\ \A i \in 1..Len(tool_calls[p]) :
                 tool_results[p][i] \in OwedLines(tool_calls[p][i].name)

\* ----------------------------------------------------------------------- C25
\* C25: a cycle whose extraction was not empty has called the generation
\* backend a second time, and what it hands to its caller is the text of
\* that second call.  Stated for the cycles that met no failure.
C25_SecondPassIsFinalAnswer ==
    \A p \in Procs :
        (/\ pc[p] = "done" /\ op[p] \in Cycles
         /\ tool_calls[p] # <<>> /\ faults[p] = {})
        => /\ generations[p] = 2
           /\ answer[p] = <<FinalProse>>

\* ----------------------------------------------------------------------- C26
\* C26: a process_query cycle whose draft holds no tool call has invoked no
\* capability, has called the generation backend once, and has returned and
\* stored the draft unchanged.  Stated for the cycles that met no backend
\* and no store failure.
C26_NoCallsReturnsDraft ==
    \A p \in Procs :
        (/\ pc[p] = "done" /\ op[p] = "base"
         /\ CallsOf(response[p]) = <<>>
         /\ faults[p] \cap (StoreFaults \cup InjectedFaults \cup {"generate"}) = {})
        => /\ executed[p] = <<>>
           /\ generations[p] = 1
           /\ answer[p] = response[p]
           /\ entry[p].ai = response[p]

\* ----------------------------------------------------------------------- C27
\* C27: the events of a WebSocket message that reached "end" are one start,
\* then chunks only, then for each extracted call in order a tool_call
\* followed by its tool_result or tool_error, then one end.  Stated for the
\* messages that met no failure.
C27_EventGrammar ==
    \A p \in Procs :
        (op[p] = "ws" /\ pc[p] = "done" /\ faults[p] = {})
        => LET ev == events[p]
               n == Len(tool_calls[p])
               k == Len(ev) - 2 * n - 2
           IN  /\ k >= 0
               /\ ev[1] = "start"
               /\ \A i \in 2..(k + 1) : ev[i] = "chunk"
               /\ \A j \in 1..n :
                     /\ ev[k + 2 * j] = "tool_call"
                     /\ ev[k + 2 * j + 1] \in {"tool_result", "tool_error"}
               /\ ev[Len(ev)] = "end"

\* ----------------------------------------------------------------------- C28
Clearers == {p \in Procs : op[p] = "clear"}

\* C28: once the one clear_history of a run has returned True, the log holds
\* no entry that was in it before the clear began, whatever the
\* save_interaction calls around it do.  Stated for the runs in which no
\* call met a failure; the entry the log started with was in it when the
\* clear began.
C28_ClearIsFinal ==
    (/\ log0 = <<OldEntry>>
     /\ Cardinality(Clearers) = 1
     /\ \A p \in Clearers : pc[p] = "done" /\ saved[p] = "True"
     /\ \A r \in Procs : faults[r] = {})
    => OldEntry \notin Range(StoreLog)

CountOf(ev, type) == Cardinality({i \in 1..Len(ev) : ev[i] = type})

\* The handling of the message has failed: the request was no JSON object,
\* or a store call, the generation, the extraction or a tool failed.
MessageFailed(p) ==
    faults[p] # {} \/ \E i \in 1..Len(executed[p]) : executed[p][i] = "raised"

====
